---- MODULE Spec2Model ----
(***************************************************************************)
(* Model of the PLOC2D client driver in src/main.py: the PLOC2DSession     *)
(* connection lifecycle (connect / disconnect / with-block) and one        *)
(* run_job call (build request, send, receive, parse, build Result).       *)
(*                                                                         *)
(* One action is one whole method call made by the (single-threaded)       *)
(* caller.  A call either returns a value (ret) or raises (raised).  The   *)
(* socket library and the device are the environment: their outcomes       *)
(* (connect refused, close failing, send failing, the bytes received) are  *)
(* chosen nondeterministically.                                            *)
(***************************************************************************)
EXTENDS Integers, Sequences, FiniteSets, TLC

\* ---------------------------------------------------------------- bounds
\* Number of sockets one session may create during a run.
MaxSockets == 2
\* Largest job id / match id the caller passes (two decimal digits occur).
MaxId == 10

\* Replies the session may still be owed on one connection.
MaxOutstanding == 1

\* ------------------------------------------------------------- constants
\* Python's None for the connection handle; socket ids are 1..MaxSockets.
None == 0
\* match_id default: the parameter was not supplied (Python None).
NoMatch == -2

SockIds == 1..MaxSockets
JobIds == {-1, MaxId}
MatchIds == {0, MaxId}

\* Texts are sequences of one-character strings.
RUN_LOCATE == <<"R","u","n",".","L","o","c","a","t","e">>
RUN_ERROR == <<"R","u","n",".","L","o","c","a","t","e",".","E","r","r","o","r">>
RUN_OK == <<"R","u","n",".","L","o","c","a","t","e",".","O","k">>

\* Python None where a text or bytes value is expected: a one-token sequence
\* that no character sequence equals (the empty text is <<>>).
PyNone == <<"None">>

\* ------------------------------------------------------------ str / int
DigitChars == <<"0","1","2","3","4","5","6","7","8","9">>

IsDigit(c) == \E d \in 1..10 : DigitChars[d] = c

DigitVal(c) == (CHOOSE d \in 1..10 : DigitChars[d] = c) - 1

RECURSIVE Digits(_)
Digits(n) == IF n < 10 THEN <<DigitChars[n + 1]>>
             ELSE Digits(n \div 10) \o <<DigitChars[(n % 10) + 1]>>

\* Python str(n) for an int n.
Str(n) == IF n < 0 THEN <<"-">> \o Digits(0 - n) ELSE Digits(n)

\* --------------------------------------------------- building the request
\* One child element of an envelope.
Child(tag, text) == [tag |-> tag, text |-> text]

\* BuildRequest with the match tag decided by truthiness ("if match_id:"),
\* which drops match id 0.
BuildRequestTruthy(job_id, match_id) ==
    <<Child("name", RUN_LOCATE), Child("job", Str(job_id))>>
    \o (IF match_id # NoMatch /\ match_id # 0
        THEN <<Child("match", Str(match_id))>> ELSE <<>>)

\* Lines 146-153: the children of message_element, in document order.
BuildRequest(job_id, match_id) ==
    <<Child("name", RUN_LOCATE), Child("job", Str(job_id))>>
    \o (IF match_id # NoMatch THEN <<Child("match", Str(match_id))>>
        ELSE <<>>)

\* ET.tostring: the wire form as a sequence of tokens; markup is the tokens
\* "<", "/", ">" around a tag name, text is one token per character and an
\* element whose text is None has none.
OpenTag(tag) == <<"<", tag, ">">>
CloseTag(tag) == <<"<", "/", tag, ">">>

RECURSIVE TostringChildren(_)
TostringChildren(children) ==
    IF children = <<>> THEN <<>>
    ELSE LET c == Head(children)
         IN OpenTag(c.tag) \o (IF c.text = PyNone THEN <<>> ELSE c.text)
            \o CloseTag(c.tag)
            \o TostringChildren(Tail(children))

Tostring(root, children) ==
    OpenTag(root) \o TostringChildren(children) \o CloseTag(root)

\* ----------------------------------------------------- parsing the reply
RECURSIVE TextEnd(_, _)
\* First position at or after i that holds markup, Len(b) + 1 if none.
TextEnd(b, i) == IF i > Len(b) \/ b[i] = "<" THEN i ELSE TextEnd(b, i + 1)

OpenAt(b, i) ==
    /\ i + 2 <= Len(b)
    /\ b[i] = "<"
    /\ b[i + 1] \notin {"<", "/", ">"}
    /\ b[i + 2] = ">"

CloseAt(b, i, tag) ==
    /\ i + 3 <= Len(b)
    /\ b[i] = "<"
    /\ b[i + 1] = "/"
    /\ b[i + 2] = tag
    /\ b[i + 3] = ">"

ParseError == [ok |-> FALSE, children |-> <<>>]

RECURSIVE ParseChildren(_, _, _)
\* The children of the root element from position i up to the root's
\* closing tag, which must end the document.  An element without
\* characters has text None.
ParseChildren(b, i, root) ==
    IF CloseAt(b, i, root)
    THEN IF i + 3 = Len(b) THEN [ok |-> TRUE, children |-> <<>>]
         ELSE ParseError
    ELSE IF OpenAt(b, i)
    THEN LET tag == b[i + 1]
             e == TextEnd(b, i + 3)
             text == SubSeq(b, i + 3, e - 1)
         IN IF CloseAt(b, e, tag)
            THEN LET rest == ParseChildren(b, e + 4, root)
                 IN IF rest.ok
                    THEN [ok |-> TRUE,
                          children |->
                            <<Child(tag, IF text = <<>> THEN PyNone ELSE text)>>
                            \o rest.children]
                    ELSE ParseError
            ELSE ParseError
    ELSE ParseError

\* ET.fromstring(response) followed by iteration over the root's children
\* (line 169-170); ok is FALSE where fromstring raises ParseError.
Fromstring(b) ==
    IF OpenAt(b, 1) THEN ParseChildren(b, 4, b[2]) ELSE ParseError

\* data = {child.tag: child.text for child in parent}: a later child with
\* the same tag replaces an earlier one.
HasTag(data, tag) == \E i \in DOMAIN data : data[i].tag = tag

Get(data, tag) ==
    LET i == CHOOSE k \in DOMAIN data :
                 /\ data[k].tag = tag
                 /\ \A j \in DOMAIN data : j > k => data[j].tag # tag
    IN data[i].text

\* ------------------------------------------------------- int() / float()
RECURSIVE AllDigits(_)
AllDigits(t) == t = <<>> \/ (IsDigit(Head(t)) /\ AllDigits(Tail(t)))

RECURSIVE DigitsVal(_)
DigitsVal(t) == IF t = <<>> THEN 0
                ELSE DigitsVal(SubSeq(t, 1, Len(t) - 1)) * 10
                     + DigitVal(t[Len(t)])

HasSign(t) == t # <<>> /\ t[1] \in {"-", "+"}
Unsigned(t) == IF HasSign(t) THEN Tail(t) ELSE t
SignOf(t) == IF t # <<>> /\ t[1] = "-" THEN -1 ELSE 1

IsIntText(t) == Unsigned(t) # <<>> /\ AllDigits(Unsigned(t))

\* Position of the first "." in t, Len(t) + 1 if there is none.
RECURSIVE DotAt(_, _)
DotAt(t, i) == IF i > Len(t) \/ t[i] = "." THEN i ELSE DotAt(t, i + 1)

WholePart(t) == SubSeq(Unsigned(t), 1, DotAt(Unsigned(t), 1) - 1)
FracPart(t) == SubSeq(Unsigned(t), DotAt(Unsigned(t), 1) + 1,
                      Len(Unsigned(t)))

\* Decimal literals float() accepts: digits with at most one ".", at
\* least one digit in all.  (Exponents, "inf", "nan" and surrounding
\* blanks do not occur in the texts of Replies.)
IsFloatText(t) ==
    /\ AllDigits(WholePart(t))
    /\ AllDigits(FracPart(t))
    /\ Len(WholePart(t)) + Len(FracPart(t)) > 0

RECURSIVE StripZeros(_)
StripZeros(t) == IF t # <<>> /\ t[Len(t)] = "0"
                 THEN StripZeros(SubSeq(t, 1, Len(t) - 1)) ELSE t

\* A float value: sign, whole part and the fraction's digits without
\* trailing zeros; -0.0 equals 0.0.
Float(sign, whole, frac) ==
    [type |-> "float",
     sign |-> IF whole = 0 /\ StripZeros(frac) = <<>> THEN 1 ELSE sign,
     whole |-> whole,
     frac |-> StripZeros(frac)]

\* An int value; ints and floats are told apart by type.
Integer(n) == [type |-> "int", val |-> n]

Converted(exc, val) == [exc |-> exc, val |-> val]

\* int(data.get(tag)): without the default an absent tag gives int(None).
IntFieldNoDefault(data, tag) ==
    IF ~HasTag(data, tag) \/ Get(data, tag) = PyNone
    THEN Converted("TypeError", Integer(0))
    ELSE IF IsIntText(Get(data, tag))
    THEN Converted("none", Integer(SignOf(Get(data, tag))
                                   * DigitsVal(Unsigned(Get(data, tag)))))
    ELSE Converted("ValueError", Integer(0))

\* int(data.get(tag, 0))
IntField(data, tag) ==
    IF ~HasTag(data, tag) THEN Converted("none", Integer(0))
    ELSE LET t == Get(data, tag)
         IN IF t = PyNone THEN Converted("TypeError", Integer(0))
            ELSE IF IsIntText(t)
            THEN Converted("none",
                           Integer(SignOf(t) * DigitsVal(Unsigned(t))))
            ELSE Converted("ValueError", Integer(0))

\* float(data.get(tag, 0))
FloatField(data, tag) ==
    IF ~HasTag(data, tag) THEN Converted("none", Float(1, 0, <<>>))
    ELSE LET t == Get(data, tag)
         IN IF t = PyNone THEN Converted("TypeError", Float(1, 0, <<>>))
            ELSE IF IsFloatText(t)
            THEN Converted("none", Float(SignOf(t), DigitsVal(WholePart(t)),
                                         FracPart(t)))
            ELSE Converted("ValueError", Float(1, 0, <<>>))

\* ------------------------------------------------------- error catalog
ErrorCodes == {9100, 9101, 9200, 9210, 9202, 9203, 9400, 9401, 9600, 9601,
               9999}

ERROR_CODES(code) ==
    CASE code = 9100 -> "The image acquisition failed."
      [] code = 9101 -> "The image could not be stored to the SD-card."
      [] code = 9200 -> "No valid image found."
      [] code = 9210 -> "PLOC2D not callibrated."
      [] code = 9202 -> "PLOC2D not aligned."
      [] code = 9203 -> "Job not valid."
      [] code = 9400 -> "Alignment failed."
      [] code = 9401 -> "Alignment target not found."
      [] code = 9600 -> "Locate failed."
      [] code = 9601 -> "Locate failed. Score too low."
      [] code = 9999 -> "An unknown error occured."

\* The lookup with the catalog's "unknown error" text as its default.
ErrorTextUnknown(error_code) ==
    IF \E c \in ErrorCodes : Str(c) = error_code
    THEN ERROR_CODES(CHOOSE c \in ErrorCodes : Str(c) = error_code)
    ELSE ERROR_CODES(9999)

\* PLOC2D.ERROR_CODES.get(error_code, ""): the keys are the codes' decimal
\* strings.
ErrorText(error_code) ==
    IF \E c \in ErrorCodes : Str(c) = error_code
    THEN ERROR_CODES(CHOOSE c \in ErrorCodes : Str(c) = error_code)
    ELSE ""

\* -------------------------------------------------- building the Result
\* Lines 175-191 in order; exc is the first conversion that raises.
\* result_id and timestamp (lines 173-174) come from the system clock and
\* are left out of the record.
Decode(data, job_id) ==
    LET m == IntField(data, "match")
        ms == IntField(data, "matches")
        x == FloatField(data, "x")
        y == FloatField(data, "y")
        z == FloatField(data, "z")
        r1 == FloatField(data, "r1")
        r2 == FloatField(data, "r2")
        r3 == FloatField(data, "r3")
        scale == FloatField(data, "scale")
        score == FloatField(data, "score")
        time == IntField(data, "time")
        exposure == IntField(data, "exposure")
        identified == IntField(data, "identified")
        order == <<m, ms, x, y, z, r1, r2, r3, scale, score, time, exposure,
                   identified>>
        error_code == IF HasTag(data, "error") THEN Get(data, "error")
                      ELSE PyNone
    IN [exc |-> IF \A i \in DOMAIN order : order[i].exc = "none" THEN "none"
                ELSE order[CHOOSE i \in DOMAIN order :
                             /\ order[i].exc # "none"
                             /\ \A j \in 1..(i - 1) : order[j].exc = "none"
                          ].exc,
        result |->
          [result_type |-> IF HasTag(data, "name") THEN Get(data, "name")
                           ELSE PyNone,
           error_code |-> error_code,
           error_text |-> ErrorText(error_code),
           job_id |-> Integer(job_id),
           match_id |-> m.val,
           matches |-> ms.val,
           x |-> x.val, y |-> y.val, z |-> z.val,
           r1 |-> r1.val, r2 |-> r2.val, r3 |-> r3.val,
           scale |-> scale.val,
           score |-> score.val,
           time |-> time.val,
           exposure |-> exposure.val,
           identified |-> identified.val]]

\* ------------------------------------------------------------ the device
\* Decimal text "w.f".
Dec(w, f) == Str(w) \o <<".">> \o Str(f)

ErrorReply ==
    Tostring("message", <<Child("name", RUN_ERROR), Child("error", Str(9601))>>)

OkReply ==
    Tostring("message",
        <<Child("name", RUN_OK), Child("match", Str(1)),
          Child("matches", Str(2)), Child("x", Dec(1, 5)),
          Child("y", Dec(-2, 25)), Child("z", Str(0)),
          Child("r1", Dec(0, 0)), Child("r2", Str(-3)),
          Child("r3", Dec(90, 10)), Child("scale", Dec(1, 0)),
          Child("score", Str(87)), Child("time", Str(120)),
          Child("exposure", Str(5000)), Child("identified", Str(1))>>)

SparseReply ==
    Tostring("message", <<Child("name", RUN_OK), Child("x", Dec(4, 2))>>)

NonNumericReply ==
    Tostring("message", <<Child("name", RUN_OK), Child("match", <<"a">>)>>)

EmptyFieldReply ==
    Tostring("message", <<Child("name", RUN_OK), Child("time", PyNone)>>)

\* What one recv(buffer) call can return: nothing at all (the peer closed
\* the connection), bytes that are not XML, a cut-off envelope, or a whole
\* envelope.
Replies ==
    {<<>>, <<"?">>, SubSeq(OkReply, 1, Len(OkReply) - 4),
     ErrorReply, OkReply, SparseReply, NonNumericReply, EmptyFieldReply}

\* The fields of a full "Ok" reply, in the order the device sends them.
OkFields ==
    <<Child("name", RUN_OK), Child("match", Str(1)),
      Child("matches", Str(2)), Child("x", Dec(1, 5)),
      Child("y", Dec(-2, 25)), Child("z", Str(0)),
      Child("r1", Dec(0, 0)), Child("r2", Str(-3)),
      Child("r3", Dec(90, 10)), Child("scale", Dec(1, 0)),
      Child("score", Str(87)), Child("time", Str(120)),
      Child("exposure", Str(5000)), Child("identified", Str(1))>>

\* The tags run_job reads from a reply: the two text fields, then the
\* numeric ones in the order of lines 179-191.
TextTags == {"name", "error"}
IntTags == {"match", "matches", "time", "exposure", "identified"}
FloatTags == {"x", "y", "z", "r1", "r2", "r3", "scale", "score"}
NumericTags == IntTags \cup FloatTags
ExpectedTags == TextTags \cup NumericTags

\* children without the children tagged tag.
RECURSIVE Without(_, _)
Without(children, tag) ==
    IF children = <<>> THEN <<>>
    ELSE (IF Head(children).tag = tag THEN <<>> ELSE <<Head(children)>>)
         \o Without(Tail(children), tag)

\* children with the text of the children tagged tag replaced.
RECURSIVE WithText(_, _, _)
WithText(children, tag, text) ==
    IF children = <<>> THEN <<>>
    ELSE <<IF Head(children).tag = tag THEN Child(tag, text)
           ELSE Head(children)>>
         \o WithText(Tail(children), tag, text)

\* An error envelope: the name and the error code, nothing else.
ErrorEnvelope(code) ==
    Tostring("message", <<Child("name", RUN_ERROR), Child("error", Str(code))>>)

\* A code the catalog does not list.
UnknownCode == 1234

\* Tags whose conversion is tried with an empty and a non-numeric text:
\* the first and the last int() and a float().
BadTags == {"match", "r3", "identified"}

\* Envelopes of every kind the decoding distinguishes: each catalog code
\* and an unknown one, the full reply with one field left out, empty or
\* not a number, and an envelope with no field at all.
AllReplies ==
    Replies
    \cup {ErrorEnvelope(c) : c \in ErrorCodes \cup {UnknownCode}}
    \cup {Tostring("message", Without(OkFields, t)) : t \in ExpectedTags}
    \cup {Tostring("message", WithText(OkFields, t, PyNone)) : t \in BadTags}
    \cup {Tostring("message", WithText(OkFields, t, <<"a">>)) : t \in BadTags}
    \cup {Tostring("message", <<>>)}

\* The replies of the device the session of Spec talks to.
SessionReplies == {<<>>, <<"?">>, ErrorReply, OkReply}

VARIABLES
    connection,   \* self._connection: None or the id of a socket object
    sockets,      \* socket objects created so far: id -> state
    block,        \* TRUE while the caller is inside "with session:"
    lastOp,       \* the method called last
    pre,          \* self._connection when that call started
    raised,       \* the exception that call raised, "none" if it returned
    ret,          \* the value that call returned
    job,          \* job_id argument of the last run_job call
    match,        \* match_id argument of the last run_job call
    request,      \* children of the message element run_job built
    command,      \* ET.tostring(message_element): the bytes to send
    response,     \* what self._recv() returned in the last run_job call
    result,       \* the Result the last run_job call returned
    sent,         \* how much of command socket.send took in that call
    io,           \* the socket calls that run_job call made, in order
    replyTo,      \* the request the received bytes answer
    outstanding,  \* requests sent on the connection and not yet answered
    device        \* the byte strings the device may send

vars == <<connection, sockets, block, lastOp, pre, raised, ret,
          job, match, request, command, response, result,
          sent, io, replyTo, outstanding, device>>

callVars == <<job, match, request, command, response, result,
              sent, io, replyTo>>

\* result when no Result was returned.
NoResult == [none |-> TRUE]

\* ------------------------------------------------------ socket library
\* socket.socket(): the new object is the first unused id.
NewSocket == CHOOSE s \in SockIds : sockets[s] = "unused" /\
                 \A t \in SockIds : t < s => sockets[t] # "unused"

\* A socket is open from its creation until close() is called on it.
IsOpen(s) == sockets[s] \in {"created", "connected"}

\* ------------------------------------------------------------- __init__
Init ==
    /\ connection = None
    /\ sockets = [s \in SockIds |-> "unused"]
    /\ block = FALSE
    /\ lastOp = "__init__"
    /\ pre = None
    /\ raised = "none"
    /\ ret = "None"
    /\ job = 0
    /\ match = NoMatch
    /\ request = <<>>
    /\ command = <<>>
    /\ response = PyNone
    /\ result = NoResult
    /\ sent = 0
    /\ io = <<>>
    /\ replyTo = "none"
    /\ outstanding = 0
    /\ device = SessionReplies

\* -------------------------------------------------------------- connect
\* connect without the "already connected" test of line 130: every call
\* opens a socket.
connectAlways ==
    /\ \E s \in SockIds : sockets[s] = "unused"
    /\ sockets' = [sockets EXCEPT ![NewSocket] = "connected"]
    /\ connection' = NewSocket
    /\ raised' = "none"
    /\ ret' = "self"

\* Body of PLOC2DSession.connect.  settimeout (line 133) takes the
\* configured timeout, a valid number, and does not raise.
connect ==
    IF connection # None
    THEN \* line 130-131: bare return
         /\ ret' = "None"
         /\ raised' = "none"
         /\ UNCHANGED <<connection, sockets>>
    ELSE \E outcome \in {"ok", "socket_error", "connect_error"} :
         CASE outcome = "socket_error" ->
                \* socket.socket() raises: nothing was assigned
                /\ raised' = "OSError"
                /\ ret' = "nothing"
                /\ UNCHANGED <<connection, sockets>>
           [] outcome = "connect_error" ->
                \* line 134 raises (refused, unreachable, timeout) after
                \* line 132 stored the new socket in self._connection
                /\ \E s \in SockIds : sockets[s] = "unused"
                /\ sockets' = [sockets EXCEPT ![NewSocket] = "created"]
                /\ connection' = NewSocket
                /\ raised' = "OSError"
                /\ ret' = "nothing"
           [] outcome = "ok" ->
                /\ \E s \in SockIds : sockets[s] = "unused"
                /\ sockets' = [sockets EXCEPT ![NewSocket] = "connected"]
                /\ connection' = NewSocket
                /\ raised' = "none"
                /\ ret' = "self"

\* ----------------------------------------------------------- disconnect
\* disconnect that drops the handle without closing the socket.
disconnectKeepsOpen ==
    /\ connection' = None
    /\ raised' = "none"
    /\ ret' = "None"
    /\ UNCHANGED sockets

\* disconnect without the test of line 138: close() is called on None.
disconnectUnguarded ==
    IF connection = None
    THEN /\ raised' = "AttributeError"
         /\ ret' = "nothing"
         /\ UNCHANGED <<connection, sockets>>
    ELSE /\ sockets' = [sockets EXCEPT ![connection] = "closed"]
         /\ connection' = None
         /\ raised' = "none"
         /\ ret' = "None"

\* Body of PLOC2DSession.disconnect.  close() on an already closed socket
\* does nothing; on an open one it may raise OSError, and the descriptor
\* is released either way.
disconnect ==
    IF connection = None
    THEN /\ ret' = "None"
         /\ raised' = "none"
         /\ UNCHANGED <<connection, sockets>>
    ELSE \E closeRaises \in BOOLEAN :
         /\ closeRaises => IsOpen(connection)
         /\ sockets' = [sockets EXCEPT ![connection] = "closed"]
         /\ IF closeRaises
            THEN /\ raised' = "OSError"
                 /\ ret' = "nothing"
                 /\ UNCHANGED connection
            ELSE /\ connection' = None
                 /\ raised' = "none"
                 /\ ret' = "None"

\* -------------------------------------------------------------- run_job
\* What socket.send(bytes) can return on a connected socket: the number of
\* bytes it took, all of them or fewer (one stands for every short count).
SendCounts(bytes) == {1, Len(bytes)}

\* Outcomes of self._send(command): it returns without sending when there
\* is no connection; socket.send raises on a socket that is not connected
\* (connect failed on it, or it was closed) and may raise on a connected
\* one.  The count socket.send returns is dropped (line 216).
send(bytes) ==
    IF connection = None
    THEN {[called |-> FALSE, exc |-> "none", n |-> 0]}
    ELSE IF sockets[connection] # "connected"
    THEN {[called |-> TRUE, exc |-> "OSError", n |-> 0]}
    ELSE {[called |-> TRUE, exc |-> "none", n |-> k] : k \in SendCounts(bytes)}
         \cup {[called |-> TRUE, exc |-> e, n |-> 0] :
                  e \in {"OSError", "timeout"}}

\* Outcomes of self._recv(): None when there is no connection, otherwise
\* what one socket.recv(self._buffer) gives.
recv ==
    IF connection = None
    THEN {[called |-> FALSE, exc |-> "none", bytes |-> PyNone]}
    ELSE IF sockets[connection] # "connected"
    THEN {[called |-> TRUE, exc |-> "OSError", bytes |-> PyNone]}
    ELSE {[called |-> TRUE, exc |-> "none", bytes |-> r] : r \in device}
         \cup {[called |-> TRUE, exc |-> e, bytes |-> PyNone] :
                  e \in {"OSError", "timeout"}}

\* The socket call a _send or _recv outcome stands for, none if the
\* method returned at its "is None" test.
IoOf(op, o) == IF o.called THEN <<[op |-> op, exc |-> o.exc]>> ELSE <<>>

\* The requests received bytes can answer: this call's, if the device got
\* it whole, or an earlier one still unanswered on the connection.
ReplySources(r, full) ==
    IF r.exc # "none" \/ r.bytes = PyNone \/ r.bytes = <<>> THEN {"none"}
    ELSE (IF full THEN {"this"} ELSE {})
         \cup (IF outstanding > 0 THEN {"earlier"} ELSE {})

\* Unanswered requests after the receive: the device answers in order, an
\* answer to this call's request leaves none before it, a receive that
\* timed out leaves them all, and no answer follows once the connection
\* is closed or broken.
StillOutstanding(r, to, pending) ==
    CASE to = "this" -> 0
      [] to = "earlier" -> pending - 1
      [] to = "none" /\ r.exc = "timeout" -> pending
      [] OTHER -> 0

\* A call that raises returns nothing and closes the handle, as a
\* session that gives up a dead socket would.
RaiseAndDisconnect(exc) ==
    /\ raised' = exc
    /\ ret' = "nothing"
    /\ result' = NoResult
    /\ connection' = None
    /\ sockets' = IF connection = None THEN sockets
                  ELSE [sockets EXCEPT ![connection] = "closed"]

\* An exception caught inside run_job and turned into an absent value.
RaiseReturnsNone(exc) ==
    /\ raised' = "none"
    /\ ret' = "None"
    /\ result' = NoResult
    /\ UNCHANGED <<connection, sockets>>

\* A call that raises returns nothing; run_job has no handler, so the
\* session is as it was.
Raise(exc) ==
    /\ raised' = exc
    /\ ret' = "nothing"
    /\ result' = NoResult
    /\ UNCHANGED <<connection, sockets>>

\* A return statement of run_job.
Return(value, res) ==
    /\ raised' = "none"
    /\ ret' = value
    /\ result' = res
    /\ UNCHANGED <<connection, sockets>>

\* run_job that carries on to the receive whatever the send did.
ProceedsAlways(s) == TRUE

\* Line 159 to line 162: the receive is reached only if _send returned.
Proceeds(s) == s.exc = "none"

\* Body of PLOC2DSession.run_job.
run_job(job_id, match_id) ==
    LET message_element == BuildRequest(job_id, match_id)
        bytes == Tostring("message", message_element)
    IN
    /\ job' = job_id
    /\ match' = match_id
    /\ request' = message_element
    /\ command' = bytes
    /\ \E s \in send(bytes) :
         LET full == s.called /\ s.exc = "none" /\ s.n = Len(bytes)
             pending == outstanding + (IF full THEN 1 ELSE 0)
         IN
         /\ sent' = s.n
         /\ IF ~Proceeds(s)
            THEN \* line 159 raises
                 /\ response' = PyNone
                 /\ io' = IoOf("send", s)
                 /\ replyTo' = "none"
                 /\ outstanding' = outstanding
                 /\ Raise(s.exc)
            ELSE \E r \in recv : \E to \in ReplySources(r, full) :
                 /\ response' = r.bytes
                 /\ io' = IoOf("send", s) \o IoOf("recv", r)
                 /\ replyTo' = to
                 /\ StillOutstanding(r, to, pending) <= MaxOutstanding
                 /\ outstanding' = StillOutstanding(r, to, pending)
                 /\ IF r.exc # "none"
                    THEN \* line 162 raises
                         Raise(r.exc)
                    ELSE IF r.bytes = PyNone
                    THEN \* line 165-166
                         Return("None", NoResult)
                    ELSE LET parent == Fromstring(r.bytes)
                             decoded == Decode(parent.children, job_id)
                         IN IF ~parent.ok THEN Raise("ParseError")
                            ELSE IF decoded.exc # "none"
                            THEN Raise(decoded.exc)
                            ELSE Return("Result", decoded.result)

\* ------------------------------------------------------------ the caller
\* Inside a with-block an exception leaves the block: the only possible
\* next call is __exit__.
CanCall == ~(block /\ raised # "none")

\* A socket is created with nothing owed on it, and nothing is owed to a
\* session without a socket; the device stays what it is.
Wire ==
    /\ outstanding' = IF connection' = connection THEN outstanding ELSE 0
    /\ UNCHANGED device

Connect ==
    /\ CanCall
    /\ lastOp' = "connect"
    /\ pre' = connection
    /\ connect
    /\ Wire
    /\ UNCHANGED <<block, callVars>>

Disconnect ==
    /\ CanCall
    /\ lastOp' = "disconnect"
    /\ pre' = connection
    /\ disconnect
    /\ Wire
    /\ UNCHANGED <<block, callVars>>

RunJob ==
    /\ CanCall
    /\ lastOp' = "run_job"
    /\ pre' = connection
    /\ \E job_id \in JobIds, match_id \in MatchIds \cup {NoMatch} :
         run_job(job_id, match_id)
    /\ UNCHANGED <<block, device>>

\* "with session:" calls __enter__, which returns self.
Enter ==
    /\ ~block
    /\ block' = TRUE
    /\ lastOp' = "__enter__"
    /\ pre' = connection
    /\ raised' = "none"
    /\ ret' = "self"
    /\ UNCHANGED <<connection, sockets, callVars, outstanding, device>>

\* Leaving the with-block, normally or with the body's exception in
\* flight: __exit__ calls disconnect.  raised and ret are the outcome of
\* the __exit__ call itself (it returns None, so an exception of the body
\* goes on propagating to the caller afterwards).
Exit ==
    /\ block
    /\ block' = FALSE
    /\ lastOp' = "__exit__"
    /\ pre' = connection
    /\ disconnect
    /\ Wire
    /\ UNCHANGED callVars

Next ==
    \/ Connect
    \/ Disconnect
    \/ RunJob
    \/ Enter
    \/ Exit

Spec == Init /\ [][Next]_vars

\* ------------------------------------------------- decoding every reply
\* run_job as a function of the reply: the session as its first connect()
\* left it, talking to a device that sends one of AllReplies, and run_job
\* calls on it.
InitDecode ==
    /\ connection = 1
    /\ sockets = [s \in SockIds |-> IF s = 1 THEN "connected" ELSE "unused"]
    /\ block = FALSE
    /\ lastOp = "connect"
    /\ pre = None
    /\ raised = "none"
    /\ ret = "self"
    /\ job = 0
    /\ match = NoMatch
    /\ request = <<>>
    /\ command = <<>>
    /\ response = PyNone
    /\ result = NoResult
    /\ sent = 0
    /\ io = <<>>
    /\ replyTo = "none"
    /\ outstanding = 0
    /\ \E r \in AllReplies : device = {r}

NextDecode == RunJob

DecodeSpec == InitDecode /\ [][NextDecode]_vars

\* ================================================================ claims

\* C1: run_job on a session whose connection handle is null fails with a
\* NotConnectedError; it returns neither a Result nor an absent value.
C1_RunJobWithoutConnectionRaises ==
    (lastOp = "run_job" /\ pre = None)
        => (raised = "NotConnectedError" /\ ret = "nothing")

\* C2: when connect() fails the session is still Disconnected: the
\* connection handle is null afterwards.
C2_FailedConnectLeavesHandleNull ==
    (lastOp = "connect" /\ raised # "none") => connection = None

\* C3: at most one socket created by the session is open, and an open
\* socket is the one the connection handle refers to.
C3_AtMostOneOpenSocket ==
    /\ Cardinality({s \in SockIds : IsOpen(s)}) <= 1
    /\ \A s \in SockIds : IsOpen(s) => connection = s

\* C3 witness: a second socket is open after the first was closed, and
\* run_job has been called on it.
C3_Witness ==
    /\ lastOp = "run_job"
    /\ connection # None
    /\ IsOpen(connection)
    /\ \E s \in SockIds : s # connection /\ sockets[s] = "closed"

\* C4: connect() on a session that already holds a connection creates no
\* socket, keeps the handle and raises nothing.
C4_ConnectWhenConnectedIsNoOp ==
    [][(lastOp' = "connect" /\ connection # None)
          => /\ sockets' = sockets
             /\ connection' = connection
             /\ raised' = "none"]_vars

\* C4 witness: connect() was called on a session connected to the device
\* and returned.
C4_Witness ==
    /\ lastOp = "connect"
    /\ pre # None
    /\ connection = pre
    /\ sockets[connection] = "connected"
    /\ raised = "none"

\* C5: every connect() call that completes without error returns the
\* session itself.
C5_ConnectReturnsSelf ==
    (lastOp = "connect" /\ raised = "none") => ret = "self"

\* C6: disconnect() never raises and always leaves the connection handle
\* null, also when closing the socket fails.
C6_DisconnectNeverRaises ==
    lastOp = "disconnect" => (raised = "none" /\ connection = None)

C8_ExitLeavesDisconnected ==
    lastOp = "__exit__" => connection = None

\* Python int(text) for a text IsIntText accepts.
IntOfText(t) == SignOf(t) * DigitsVal(Unsigned(t))

\* C9: the request built by run_job is a message envelope whose children
\* are exactly name = "Run.Locate", job = the job id and, if and only if a
\* match id was supplied, match = the match id, in that order; the bytes
\* sent are that envelope.
C9_RequestEnvelope ==
    lastOp = "run_job" =>
        /\ Len(request) = (IF match = NoMatch THEN 2 ELSE 3)
        /\ request[1] = Child("name", RUN_LOCATE)
        /\ request[2].tag = "job"
        /\ IsIntText(request[2].text)
        /\ IntOfText(request[2].text) = job
        /\ match # NoMatch =>
              /\ request[3].tag = "match"
              /\ IsIntText(request[3].text)
              /\ IntOfText(request[3].text) = match
        /\ SubSeq(command, 1, 3) = <<"<", "message", ">">>
        /\ Fromstring(command).ok
        /\ Fromstring(command).children = request

\* C9 witness: run_job was called with match id 0 and built a match child.
C9_Witness ==
    /\ lastOp = "run_job"
    /\ match = 0
    /\ Len(request) = 3

\* C10: with the connection open and an empty reply (recv returned zero
\* bytes), run_job returns an absent value and does not raise.
C10_EmptyReplyYieldsNone ==
    (/\ lastOp = "run_job"
     /\ pre # None
     /\ sockets[pre] = "connected"
     /\ response = <<>>)
        => (ret = "None" /\ raised = "none")

\* ------------------------------------------------ reading back a reply
\* The children of the envelope the last run_job call received.
ReplyData == Fromstring(response).children

\* The last run_job call received a well-formed envelope.
GotEnvelope ==
    /\ lastOp = "run_job"
    /\ response # PyNone
    /\ Fromstring(response).ok

\* The Result field a reply tag is decoded into ("error" stands for the
\* error text resolved from it).
ResultField(tag) ==
    CASE tag = "name" -> result.result_type
      [] tag = "error" -> result.error_text
      [] tag = "match" -> result.match_id
      [] tag = "matches" -> result.matches
      [] tag = "x" -> result.x
      [] tag = "y" -> result.y
      [] tag = "z" -> result.z
      [] tag = "r1" -> result.r1
      [] tag = "r2" -> result.r2
      [] tag = "r3" -> result.r3
      [] tag = "scale" -> result.scale
      [] tag = "score" -> result.score
      [] tag = "time" -> result.time
      [] tag = "exposure" -> result.exposure
      [] tag = "identified" -> result.identified

\* The fields the Result declares as integers and as pose numbers.
DeclaredIntTags ==
    {"match", "matches", "score", "time", "exposure", "identified"}
DeclaredFloatTags == {"x", "y", "z", "r1", "r2", "r3", "scale"}

FloatZero == Float(1, 0, <<>>)

\* The type-appropriate zero value of a field: the empty string for the
\* texts, 0 for the integers, 0.0 for the pose numbers.
ZeroValue(tag) ==
    CASE tag = "name" -> <<>>
      [] tag = "error" -> ""
      [] tag \in DeclaredIntTags -> Integer(0)
      [] tag \in DeclaredFloatTags -> FloatZero

\* Every numeric field the envelope carries has a text of its declared
\* kind.
NumbersWellFormed(data) ==
    /\ \A t \in DeclaredIntTags :
          HasTag(data, t) => Get(data, t) # PyNone /\ IsIntText(Get(data, t))
    /\ \A t \in DeclaredFloatTags :
          HasTag(data, t) => Get(data, t) # PyNone /\ IsFloatText(Get(data, t))

\* C11: for every reply envelope and every expected field absent from it,
\* run_job returns a Result without raising in which that field has its
\* type-appropriate zero value (0 for integers, 0.0 for pose fields, the
\* empty string for the result type and the error text).
C11_AbsentFieldsDefaultToZero ==
    (GotEnvelope /\ NumbersWellFormed(ReplyData)) =>
        \A t \in ExpectedTags :
            ~HasTag(ReplyData, t) =>
                /\ raised = "none"
                /\ ret = "Result"
                /\ ResultField(t) = ZeroValue(t)

\* The texts the specification documents for the catalog's codes.
DocumentedText(code) ==
    CASE code = 9100 -> "image acquisition failed"
      [] code = 9101 -> "could not store image to SD card"
      [] code = 9200 -> "no valid image found"
      [] code = 9210 -> "not calibrated"
      [] code = 9202 -> "not aligned"
      [] code = 9203 -> "job not valid"
      [] code = 9400 -> "alignment failed"
      [] code = 9401 -> "alignment target not found"
      [] code = 9600 -> "locate failed"
      [] code = 9601 -> "locate failed, score too low"
      [] code = 9999 -> "unknown error"

\* The error code the received envelope carries, None if it has none.
ReplyCode == IF HasTag(ReplyData, "error") THEN Get(ReplyData, "error")
             ELSE PyNone

\* C12 as stated: for every catalog code the error text resolved for a
\* reply carrying it is the documented text of the specification (9601
\* gives "locate failed, score too low").
C12_DocumentedErrorText ==
    (GotEnvelope /\ ret = "Result") =>
        \A c \in ErrorCodes :
            ReplyCode = Str(c) => result.error_text = DocumentedText(c)

\* C12 amended: for every catalog code the error text resolved for a reply
\* carrying it is the text PLOC2D.ERROR_CODES holds for that code (9601
\* gives "Locate failed. Score too low."); for an absent or unrecognized
\* code it is the empty string.
C12_CatalogErrorText ==
    (GotEnvelope /\ ret = "Result") =>
        /\ \A c \in ErrorCodes :
              ReplyCode = Str(c) => result.error_text = ERROR_CODES(c)
        /\ ReplyCode = <<"9", "6", "0", "1">>
              => result.error_text = "Locate failed. Score too low."
        /\ (\A c \in ErrorCodes : ReplyCode # Str(c))
              => result.error_text = ""

\* C12 witness: a reply carrying an unrecognized code was decoded into a
\* Result with an empty error text.
C12_Witness ==
    /\ GotEnvelope
    /\ ret = "Result"
    /\ ReplyCode = Str(UnknownCode)
    /\ result.error_text = ""

\* A numeric Result field is zero.
IsZero(v) == v = Integer(0) \/ v = FloatZero

\* C13: an error envelope (name "Run.Locate.Error" and an error code, no
\* other field) makes run_job return normally a Result whose result type
\* and error code are the reply's and whose numeric fields are all zero,
\* and the session still holds the same connected socket.
C13_DeviceFaultIsData ==
    \A c \in ErrorCodes \cup {UnknownCode} :
        (lastOp = "run_job" /\ response = ErrorEnvelope(c)) =>
            /\ raised = "none"
            /\ ret = "Result"
            /\ result.result_type = RUN_ERROR
            /\ result.error_code = Str(c)
            /\ \A t \in NumericTags : IsZero(ResultField(t))
            /\ connection = pre
            /\ connection # None
            /\ sockets[connection] = "connected"

\* C13 witness: run_job returned a Result for the error envelope of code
\* 9600 on a connected session.
C13_Witness ==
    /\ lastOp = "run_job"
    /\ response = ErrorEnvelope(9600)
    /\ ret = "Result"
    /\ result.error_text = "Locate failed."

\* C14: a full "Ok" reply is decoded into a Result whose fields are the
\* reply's values in the declared types: match id, match count, score,
\* time, exposure and identified as integers, the pose fields as numbers,
\* the result type the reply's name, the job id the one passed.
C14_OkReplyRoundTrip ==
    (lastOp = "run_job" /\ response = OkReply) =>
        /\ raised = "none"
        /\ ret = "Result"
        /\ result.result_type = RUN_OK
        /\ result.job_id = Integer(job)
        /\ result.match_id = Integer(1)
        /\ result.matches = Integer(2)
        /\ result.score = Integer(87)
        /\ result.time = Integer(120)
        /\ result.exposure = Integer(5000)
        /\ result.identified = Integer(1)
        /\ result.x = Float(1, 1, <<"5">>)
        /\ result.y = Float(-1, 2, <<"2", "5">>)
        /\ result.z = FloatZero
        /\ result.r1 = FloatZero
        /\ result.r2 = Float(-1, 3, <<>>)
        /\ result.r3 = Float(1, 90, <<"1">>)
        /\ result.scale = Float(1, 1, <<>>)

\* The socket calls of the last run_job call.
SendFailed == io # <<>> /\ io[1].op = "send" /\ io[1].exc # "none"
SendReturned == io # <<>> /\ io[1].op = "send" /\ io[1].exc = "none"
RecvTimedOut == Len(io) = 2 /\ io[2].op = "recv" /\ io[2].exc = "timeout"

\* C15 as stated: a failed send surfaces as a TransmissionError and a
\* receive timeout as a TimeoutError (socket.timeout); run_job returns
\* nothing.
C15_TransmissionErrorRaised ==
    lastOp = "run_job" =>
        /\ SendFailed => (raised = "TransmissionError" /\ ret = "nothing")
        /\ RecvTimedOut => (raised = "timeout" /\ ret = "nothing")

\* C15 amended: when the send fails or no data arrives before the receive
\* timeout, run_job lets the socket library's exception through unchanged
\* (OSError, or socket.timeout for a timed-out send or receive) and
\* returns neither a Result nor an absent value.
C15_SocketErrorSurfaces ==
    lastOp = "run_job" =>
        /\ SendFailed =>
              /\ raised = io[1].exc
              /\ raised \in {"OSError", "timeout"}
              /\ ret = "nothing"
              /\ result = NoResult
        /\ RecvTimedOut =>
              /\ raised = "timeout"
              /\ ret = "nothing"
              /\ result = NoResult

\* C15 witness: on a connected session the send went through and the
\* receive timed out.
C15_Witness ==
    /\ lastOp = "run_job"
    /\ SendReturned
    /\ RecvTimedOut
    /\ raised = "timeout"

\* C16: a non-empty reply that is not well-formed XML, or has a numeric
\* tag with empty or non-numeric text, makes run_job fail with a
\* MalformedResponseError; no raw parse or conversion failure reaches the
\* caller.
C16_MalformedResponseError ==
    (lastOp = "run_job" /\ response # PyNone /\ response # <<>>) =>
        /\ (~Fromstring(response).ok \/ ~NumbersWellFormed(ReplyData))
              => raised = "MalformedResponseError"
        /\ raised \notin {"ParseError", "ValueError", "TypeError"}

\* C17: when the send step of run_job completes without error, the whole
\* serialized request has been transmitted.
C17_RequestSentInFull ==
    (lastOp = "run_job" /\ SendReturned) => sent = Len(command)

\* C18 as stated: after run_job fails because the send or the receive
\* failed or timed out, the connection handle is null.
C18_FailureDisconnects ==
    (/\ lastOp = "run_job"
     /\ pre # None
     /\ raised \in {"OSError", "timeout"})
        => connection = None

\* C18 amended: a transmission or receive failure during run_job leaves
\* the session as it was: the handle still refers to the same socket,
\* which run_job did not close, so the next run_job uses that socket.
C18_FailureKeepsConnection ==
    [][(lastOp' = "run_job" /\ raised' \in {"OSError", "timeout"})
          => /\ connection' = connection
             /\ sockets' = sockets]_vars

\* C18 witness: a run_job call whose request went out failed with a
\* receive timeout, and the handle is still that connected socket, which
\* now owes the session a reply.
C18_Witness ==
    /\ lastOp = "run_job"
    /\ raised = "timeout"
    /\ pre # None
    /\ connection = pre
    /\ sockets[connection] = "connected"
    /\ outstanding > 0

\* C19: a run_job call on a session with a connection makes exactly one
\* send attempt and at most one receive attempt, the receive only after
\* the send returned without error.
C19_OneSendAtMostOneRecv ==
    (lastOp = "run_job" /\ pre # None) =>
        /\ Len(io) \in {1, 2}
        /\ io[1].op = "send"
        /\ Len(io) = 2 => (io[2].op = "recv" /\ io[1].exc = "none")
        /\ io[1].exc # "none" => Len(io) = 1
        /\ Cardinality({i \in DOMAIN io : io[i].op = "send"}) = 1
        /\ Cardinality({i \in DOMAIN io : io[i].op = "recv"}) <= 1

\* C19 witness: the send failed on a connected socket and no receive
\* followed.
C19_Witness ==
    /\ lastOp = "run_job"
    /\ pre # None
    /\ sockets[pre] = "connected"
    /\ SendFailed
    /\ Len(io) = 1

\* C20: every Result a run_job call returns is built from the device's
\* reply to the request sent in that same call, never from the reply to an
\* earlier request.
C20_ResultAnswersThisRequest ==
    (lastOp = "run_job" /\ ret = "Result") => replyTo = "this"

====
